---------------------------- MODULE Spec2Model ----------------------------
(***************************************************************************)
(* ARBO: the estimator engine (arbo_lib.core.estimator.ArboEstimator) on   *)
(* top of the PostgreSQL state store (arbo_lib.db.store.ArboState), with   *)
(* several worker processes calling predict and feedback concurrently.     *)
(*                                                                         *)
(* Every store method opens its own connection and runs one transaction    *)
(* (store.py _get_cursor), so one store call is one atomic step and the    *)
(* workers interleave between store calls.  Python floats are modelled as  *)
(* fixed-point integers: a real x is the integer x * Scale, rounded down.  *)
(***************************************************************************)
EXTENDS Integers, Sequences, FiniteSets, TLC

\* ------------------------------------------------------------------------
\* Bounds of the model and program constants
\* ------------------------------------------------------------------------

\* total number of calls the workers issue: predict and feedback calls
\* (Spec), feedback calls alone (SpecFeedback)
MaxCalls == 3
MaxFeedbackCalls == 4
\* feedback calls on a task that has its baseline (SpecLearn)
MaxLearnCalls == 1
MaxSearchCalls == 1
MaxReportCalls == 2
MaxConcurrentCalls == 3

\* fixed-point unit: the float 1.0
Scale == 100

Workers == {"w1", "w2", "w3"}
\* the workers that issue calls where two concurrent callers are looked at
Callers == {"w1", "w2"}
Tasks == {"taskA"}

\* feedback(): max_retries
\* a loop that makes one attempt more
max_retries_one_more == 3 + 1

\* a loop that makes one attempt less
max_retries_one_less == 3 - 1

max_retries == 3

\* predict(): the forced degree of parallelism of the calibration run
calibration_s == 5

\* initialize_task(): default arguments
default_p == 100
default_c_startup == 600
default_alpha_p == 70
default_alpha_k == 80

\* "no value": Python's None for an Optional[float]
None == -1

\* Floats outside the range of the fixed-point format, by the class they are
\* in.  Limit: 1e10, the bound of _sanitize_float; every fixed-point value of
\* the model is below it.  Huge: a finite float such as 1e30, whose products,
\* quotients and powers gamma ** k (k >= 0.5) with the fixed-point values are
\* above 1e10.  NaN: float("nan")
Limit == 1000000000
Huge == 1000000001
NaN == 2000000000

\* inputs the callers pass: predict (input_quantity, max_time_slo) and
\* feedback (s, gamma, t_actual); cluster_load and the prediction snapshot
\* handed back to feedback are 0
PredictInputs == {<<100, None>>, <<200, 4000>>}
FeedbackInputs == {<<1, 100, 21000>>, <<5, 200, 6000>>}
\* runs reported for a task that has its baseline: (s, gamma, t_actual)
LearnInputs == {<<2, 100, 6000>>, <<1, 100, 10000>>, <<10, 100, 100>>, <<10, 100, 22000>>}
\* runs whose duration is the theoretical time of a task with a true p:
\* the s, gamma and p of such runs
TheoreticalRuns == {2, 4} \X {10, 100, 200} \X {50, 80}
\* report_success calls: (s, gamma, fallback_duration, duration in the answer
\* of the Airflow API)
ReportInputs == {<<1, 100, 21000, 20000>>}
\* what the Airflow API answers to the probe of report_success: the duration
\* and the timing data; no token; an HTTP error; an answer without the data
\* the duration is taken from; one whose dates are null; one whose dates
\* are not in the format "%Y-%m-%dT%H:%M:%S.%fZ"
ProbeOutcomes == {"ok", "auth_failed", "http_error", "no_duration", "no_timing", "bad_timing"}
\* predict calls on a task that has its row: (input_quantity, max_time_slo).
\* The base_input_quantity of the rows is 100; 0 is an empty input, Huge one
\* of 1e30
SearchInputs == {<<100, None>>, <<100, 5000>>, <<100, 100>>, <<200, None>>, <<200, 0>>, <<0, None>>, <<Huge, None>>}
\* what the fitted Gaussian Process may answer: residual(s) = r0 + r1 * s
ResidualProfiles == {<<0, 0>>, <<-300, 20>>, <<0, -100>>, <<-700, 0>>}

\* ------------------------------------------------------------------------
\* Fixed-point arithmetic
\* ------------------------------------------------------------------------

Abs(x) == IF x < 0 THEN -x ELSE x
Max(a, b) == IF a >= b THEN a ELSE b
Min(a, b) == IF a <= b THEN a ELSE b
\* ceil(a / b) for b > 0
CeilDiv(a, b) == -((-a) \div b)
\* x * y of two fixed-point reals
Mul(x, y) == (x * y) \div Scale
\* x / y of two fixed-point reals, y > 0
Div(x, y) == (x * Scale) \div y

RECURSIVE TwoTo(_)
TwoTo(n) == IF n = 0 THEN 1 ELSE 2 * TwoTo(n - 1)

\* 2 ** (f / Scale) for 0 <= f < Scale: 2 ** 0.0, 2 ** 0.1, ..., 2 ** 1.0 in
\* thousandths, interpolated linearly
Exp2Knots == <<1000, 1072, 1149, 1231, 1320, 1414, 1516, 1625, 1741, 1866, 2000>>
Exp2Frac(f) ==
    LET i == (f * 10) \div Scale
        r == (f * 10) % Scale
        lo == Exp2Knots[i + 1]
        hi == Exp2Knots[i + 2]
    IN  (lo * Scale + (hi - lo) * r) \div 1000

\* 2 ** y for a fixed-point y of either sign
Exp2(y) ==
    LET n == y \div Scale
        m == Exp2Frac(y % Scale)
    IN  IF n >= 0 THEN m * TwoTo(n) ELSE m \div TwoTo(-n)

\* floor(log2(x)) as an integer, for a fixed-point x > 0
RECURSIVE Log2Int(_)
Log2Int(x) ==
    IF x >= 2 * Scale THEN 1 + Log2Int(x \div 2)
    ELSE IF x < Scale THEN Log2Int(x * 2) - 1
    ELSE 0

\* log2(m) for Scale <= m < 2 * Scale: the inverse of Exp2Frac on the same knots
Log2Frac(m) ==
    LET x == (m * 1000) \div Scale
        i == CHOOSE j \in 1..10 : Exp2Knots[j] <= x /\ x < Exp2Knots[j + 1]
        lo == Exp2Knots[i]
        hi == Exp2Knots[i + 1]
    IN  ((i - 1) * Scale) \div 10 + ((x - lo) * Scale) \div (10 * (hi - lo))

\* log2(x) for a fixed-point x > 0
Log2(x) ==
    LET n == Log2Int(x)
        m == IF n >= 0 THEN x \div TwoTo(n) ELSE x * TwoTo(-n)
    IN  n * Scale + Log2Frac(m)

\* gamma ** k (Python float power), gamma > 0.  Like the float power the
\* result is 0 when it is below the smallest positive value of the number
\* format (1 / Scale here, 5e-324 for a float)
Pow(gamma, k) ==
    IF gamma <= 0 THEN 0
    ELSE IF gamma = Huge THEN (IF k > 0 THEN Huge ELSE IF k = 0 THEN Scale ELSE 0)
    ELSE Exp2(Mul(k, Log2(gamma)))

\* s ** 0.5 for s = 1 .. 75, rounded down to the fixed-point unit
SqrtTable ==
    <<100, 141, 173, 200, 223, 244, 264, 282, 300, 316, 331, 346, 360, 374, 387,
      400, 412, 424, 435, 447, 458, 469, 479, 489, 500, 509, 519, 529, 538, 547,
      556, 565, 574, 583, 591, 600, 608, 616, 624, 632, 640, 648, 655, 663, 670,
      678, 685, 692, 700, 707, 714, 721, 728, 734, 741, 748, 754, 761, 768, 774,
      781, 787, 793, 800, 806, 812, 818, 824, 830, 836, 842, 848, 854, 860, 866>>
Sqrt(s) == SqrtTable[s]


\* ------------------------------------------------------------------------
\* arbo_lib.core.amdahl.AmdahlUtils
\* ------------------------------------------------------------------------

\* the theoretical time without the startup time
calculate_theoretical_time_without_startup(c_startup, gamma, t_base, p, s, k) ==
    LET s1 == IF s < 1 THEN 1 ELSE s
    IN  Mul(Pow(gamma, k), ((Scale - p) * t_base) \div Scale + (p * t_base) \div (s1 * Scale))

calculate_theoretical_time(c_startup, gamma, t_base, p, s, k) ==
    LET s1 == IF s < 1 THEN 1 ELSE s
        scaling_factor == Pow(gamma, k)
        amdahl_part == ((Scale - p) * t_base) \div Scale + (p * t_base) \div (s1 * Scale)
    IN  IF scaling_factor = Huge
        THEN (IF amdahl_part > 0 THEN Huge ELSE c_startup)
        ELSE c_startup + Mul(scaling_factor, amdahl_part)

\* the inferred p returned without the clamp to [0.01, 0.99]
calculate_current_p_unclamped(s, t_actual, c_startup, t_base, gamma, k) ==
    IF s <= 1 \/ t_base <= 0 THEN None
    ELSE LET pure_computation_time == Max(0, t_actual - c_startup)
             expected_scale == Pow(gamma, k)
         IN  IF expected_scale <= 0 THEN None
             ELSE LET normalized_time == Div(pure_computation_time, Mul(expected_scale, t_base))
                  IN  (s * (Scale - normalized_time)) \div (s - 1)

calculate_current_p(s, t_actual, c_startup, t_base, gamma, k) ==
    IF s <= 1 \/ t_base <= 0 THEN None
    ELSE LET pure_computation_time == Max(0, t_actual - c_startup)
             expected_scale == Pow(gamma, k)
         IN  IF expected_scale <= 0 THEN None
             ELSE LET normalized_time == Div(pure_computation_time, Mul(expected_scale, t_base))
                      p_calc == (s * (Scale - normalized_time)) \div (s - 1)
                  IN  Max(1, Min(99, p_calc))

\* the inferred k returned without the clamp to [0.5, 3.0]
calculate_current_k_unclamped(s, t_actual, c_startup, t_base, gamma, p) ==
    IF 99 <= gamma /\ gamma <= 101 THEN None
    ELSE LET pure_time == Max(1, t_actual - c_startup)
             theoretical_base_at_s == ((Scale - p) * t_base) \div Scale + (p * t_base) \div (s * Scale)
         IN  IF theoretical_base_at_s <= 0 \/ gamma <= 0 THEN None
             ELSE LET log_ration == Log2(pure_time) - Log2(theoretical_base_at_s)
                      log_gamma == Log2(gamma)
                  IN  IF log_gamma = 0 THEN None
                      ELSE IF log_gamma > 0
                           THEN (log_ration * Scale) \div log_gamma
                           ELSE ((-log_ration) * Scale) \div (-log_gamma)

\* "0.99 <= gamma <= 1.01"; max(1e-3, .) is the smallest positive fixed-point
\* value, so ration > 0 always and log(ration) = log(pure_time) - log(base)
calculate_current_k(s, t_actual, c_startup, t_base, gamma, p) ==
    IF 99 <= gamma /\ gamma <= 101 THEN None
    ELSE LET pure_time == Max(1, t_actual - c_startup)
             theoretical_base_at_s == ((Scale - p) * t_base) \div Scale + (p * t_base) \div (s * Scale)
         IN  IF theoretical_base_at_s <= 0 \/ gamma <= 0 THEN None
             ELSE LET log_ration == Log2(pure_time) - Log2(theoretical_base_at_s)
                      log_gamma == Log2(gamma)
                  IN  IF log_gamma = 0 THEN None
                      ELSE LET k_calc == IF log_gamma > 0
                                         THEN (log_ration * Scale) \div log_gamma
                                         ELSE ((-log_ration) * Scale) \div (-log_gamma)
                           IN  Max(50, Min(300, k_calc))

\* the average with the weights of the old and the new value exchanged
update_moving_average_swapped(old_val, current_val, alpha) ==
    IF current_val = None THEN old_val
    ELSE ((Scale - alpha) * old_val + alpha * current_val) \div Scale

\* the average taken with a missing sample counted as 0
update_moving_average_from_zero(old_val, current_val, alpha) ==
    (alpha * old_val + (Scale - alpha) * Max(0, current_val)) \div Scale

update_moving_average(old_val, current_val, alpha) ==
    IF current_val = None THEN old_val
    ELSE (alpha * old_val + (Scale - alpha) * current_val) \div Scale

\* ------------------------------------------------------------------------
\* arbo_lib.core.estimator.ArboEstimator: the static helpers
\* ------------------------------------------------------------------------

_cost_function(t, s) == Mul(t, Sqrt(s))

\* a search space that does not depend on p
_find_search_space_fixed(p) ==
    50

\* lines 229-235
_find_search_space(p) ==
    IF p >= 99 THEN 50
    ELSE Max(CeilDiv(p, Scale - p), 15)

\* lines 246-252.  A value of the fixed-point format that is not 0 is at
\* least 0.01 in magnitude, so "abs(f_val) < 1e-10" holds of none; every
\* comparison with nan is False, so nan comes back as it is
_sanitize_float(x) ==
    IF x = 0 THEN 0
    ELSE IF x = NaN THEN NaN
    ELSE IF Abs(x) > Limit THEN (IF x > 0 THEN Limit ELSE -Limit)
    ELSE x

\* a row whose p_snapshot is the p of a fresh task
_pack_run_data_fresh_snapshot(s, gamma, cluster_load, time, residual, cost, p_snapshot, predicted_amdahl, predicted_residual) ==
    [parallelism |-> s, input_scale_factor |-> gamma, cluster_load |-> cluster_load,
     total_duration |-> time, residual |-> residual, cost_metric |-> cost,
     p_snapshot |-> default_p, time_amdahl |-> predicted_amdahl,
     pred_residual |-> predicted_residual]

\* lines 273-286
_pack_run_data(s, gamma, cluster_load, time, residual, cost, p_snapshot, predicted_amdahl, predicted_residual) ==
    [parallelism |-> s, input_scale_factor |-> gamma, cluster_load |-> cluster_load,
     total_duration |-> time, residual |-> residual, cost_metric |-> cost,
     p_snapshot |-> p_snapshot, time_amdahl |-> predicted_amdahl,
     pred_residual |-> predicted_residual]

\* ResidualModel.predict for one candidate s: zeros when the model is not
\* trained, otherwise what the fitted regressor answers (profile)
residual_predict(is_trained, profile, s) ==
    IF ~is_trained THEN 0 ELSE profile[1] + profile[2] * s

\* a time constraint that skips no candidate
violates_slo_never(max_time_slo, t_total) ==
    FALSE

\* line 86: "if max_time_slo and t_total > max_time_slo: continue"
violates_slo(max_time_slo, t_total) ==
    max_time_slo # None /\ max_time_slo # 0 /\ t_total > max_time_slo

\* lines 76-95: one pass of the loop of predict, for the candidate s: what
\* the candidate would leave in (best_s, best_score, predicted_amdahl,
\* predicted_residual); passes = FALSE when the time constraint skips it.
\* t_amdahl is calculate_theoretical_time(c_startup, gamma, t_base_1, p_obs,
\* s, k_exponent), s >= 1, with gamma ** k_exponent (scaling_factor), which
\* is the same for every candidate, computed once.  When scaling_factor is
\* Huge and the Amdahl part is not 0, c_startup and the residual vanish in
\* their product and the costs of the candidates are in the order of
\* amdahl_part * sqrt(s): Huge + that stands for them
candidate(s, scaling_factor, params, is_trained, profile, max_time_slo) ==
    LET amdahl_part == ((Scale - params.p_obs) * params.t_base_1) \div Scale
                       + (params.p_obs * params.t_base_1) \div (s * Scale)
        t_amdahl == IF scaling_factor = Huge
                    THEN (IF amdahl_part > 0 THEN Huge ELSE params.c_startup)
                    ELSE params.c_startup + Mul(scaling_factor, amdahl_part)
        res == residual_predict(is_trained, profile, s)
        t_total == IF t_amdahl = Huge THEN Huge ELSE t_amdahl + res
    IN  [s |-> s, t_amdahl |-> t_amdahl, residual |-> res, t_total |-> t_total,
         cost |-> IF t_total = Huge THEN Huge + _cost_function(amdahl_part, s)
                  ELSE _cost_function(t_total, s),
         passes |-> ~violates_slo(max_time_slo, t_total)]

\* a test that replaces the best candidate on an equal cost too
better_or_equal(cand, best) ==
    cand.passes /\ (~best.passes \/ cand.cost <= best.cost)

\* lines 86-91: the candidate cand is not skipped by the time constraint and
\* "cost < best_score" (best_score = inf as long as no candidate has passed)
better(cand, best) ==
    cand.passes /\ (~best.passes \/ cand.cost < best.cost)

\* lines 76-95: the loop of predict over the candidates lo .. hi.  The loop
\* goes through them in ascending order and replaces the best one only on a
\* strictly smaller cost, so the best of lo .. hi is the best of the lower
\* half unless the upper half holds a passing candidate of strictly smaller
\* cost (best_score = inf as long as no candidate has passed)
RECURSIVE search_loop(_, _, _, _, _, _, _)
search_loop(lo, hi, scaling_factor, params, is_trained, profile, max_time_slo) ==
    IF lo = hi
    THEN candidate(lo, scaling_factor, params, is_trained, profile, max_time_slo)
    ELSE LET mid == (lo + hi) \div 2
             lower == search_loop(lo, mid, scaling_factor, params, is_trained, profile,
                                  max_time_slo)
             upper == search_loop(mid + 1, hi, scaling_factor, params, is_trained, profile,
                                  max_time_slo)
         IN  IF better(upper, lower) THEN upper ELSE lower

\* lines 63-98: the candidate search on the row params; (1, 0, 0) when no
\* candidate passes the time constraint
candidate_search(params, gamma, is_trained, profile, max_time_slo) ==
    LET max_s == _find_search_space(params.p_obs)
        best == search_loop(1, CeilDiv(max_s * 3, 2), Pow(gamma, params.k_exponent), params,
                            is_trained, profile, max_time_slo)
    IN  IF best.passes
        THEN <<best.s, gamma, _sanitize_float(best.t_amdahl), _sanitize_float(best.residual)>>
        ELSE <<1, gamma, 0, 0>>

\* ------------------------------------------------------------------------
\* State
\* ------------------------------------------------------------------------

VARIABLES
    task_models,        \* table task_models: task_name -> row, or NoRow
    execution_history,  \* table execution_history: task_name -> rows, oldest first
    pc,                 \* where each worker stands in predict / feedback
    call,               \* the arguments of the call each worker is in
    params,             \* predict/feedback local: the row get_task_model returned
    attempt,            \* feedback local: the index of the retry loop
    current_version,    \* feedback local
    result,             \* what the last call of each worker gave back to its caller
    ncalls,             \* calls issued so far
    obs,                \* history: what the call of each worker has done so far
    solo,               \* history: no other worker has been in a call since this one began
    baseline_writers,   \* history: task_name -> who wrote the value t_base_1 has by
                        \*   update_baseline: the workers that did in the call they
                        \*   are in or have last returned from, "earlier" when a call
                        \*   before those did
    is_trained          \* ResidualModel.is_trained of the estimator of each worker

vars == <<task_models, execution_history, pc, call, params, attempt, current_version,
          result, ncalls, obs, solo, baseline_writers, is_trained>>

NoRow == [exists |-> FALSE, t_base_1 |-> 0, base_input_quantity |-> 0, p_obs |-> 0,
          k_exponent |-> 0, c_startup |-> 0, alpha_p |-> 0, alpha_k |-> 0,
          sample_count |-> 0]

NoCall == [op |-> "none", task_name |-> "none", input_quantity |-> 0, cluster_load |-> 0,
           max_time_slo |-> None, s |-> 0, gamma |-> 0, t_actual |-> 0,
           predicted_amdahl |-> 0, predicted_residual |-> 0,
           fallback_duration |-> 0, is_group |-> FALSE, probe |-> "none", probed |-> 0]

NoResult == [kind |-> "none", s |-> 0, gamma |-> 0, predicted_amdahl |-> 0,
             predicted_residual |-> 0, exc |-> "none", path |-> "none"]

\* first_sc, first_t_base: sample_count (-1: no row) and t_base_1 of the row
\*   the first get_task_model of the call returned
\* um_calls, stale, notfound: update_model calls made, and how many raised
\*   StaleDataError and TaskNotFoundError
\* um_ev, um_seen, um_res: the last update_model call: its expected_version,
\*   the sample_count its UPDATE statement met (-1: no row), how it ended
\* commit_version: the expected_version of the update_model that committed
\* base_writes: update_baseline calls that met a row; touched: one of them
\*   changed the row
\* profile: what the residual model of predict answered in the call;
\*   was_trained: its is_trained when the call reached train
\* fb_calls: the calls of estimator.feedback that report_success has made
NoObs == [first_sc |-> -2, first_t_base |-> 0, um_calls |-> 0, stale |-> 0, notfound |-> 0,
          um_ev |-> -1, um_seen |-> -1, um_res |-> "none", commit_version |-> -1,
          base_writes |-> 0, touched |-> FALSE, profile |-> <<0, 0>>,
          was_trained |-> FALSE, fb_calls |-> 0]

\* ------------------------------------------------------------------------
\* arbo_lib.db.store.ArboState: what each query does to the tables
\* ------------------------------------------------------------------------

\* the INSERT with the two values in each other's column
initialize_task_row_swapped(t_base, base_input_quantity) ==
    [exists |-> TRUE, t_base_1 |-> base_input_quantity, base_input_quantity |-> t_base,
     p_obs |-> default_p, k_exponent |-> Scale, c_startup |-> default_c_startup,
     alpha_p |-> default_alpha_p, alpha_k |-> default_alpha_k, sample_count |-> 0]

\* an INSERT that meets no primary key
unique_violation_ignored(row) ==
    FALSE

\* initialize_task, lines 82-86: the INSERT meets the primary key task_name
unique_violation(row) ==
    row.exists

\* INSERT INTO task_models (...): sample_count takes the column default 0
initialize_task_row(t_base, base_input_quantity) ==
    [exists |-> TRUE, t_base_1 |-> t_base, base_input_quantity |-> base_input_quantity,
     p_obs |-> default_p, k_exponent |-> Scale, c_startup |-> default_c_startup,
     alpha_p |-> default_alpha_p, alpha_k |-> default_alpha_k, sample_count |-> 0]

\* an UPDATE that inserts the row it does not find
update_baseline_row_upsert(row, new_t_base) ==
    IF row.exists THEN [row EXCEPT !.t_base_1 = new_t_base]
    ELSE initialize_task_row(new_t_base, 0)

\* an UPDATE that matches no row
update_baseline_row_unmatched(row, new_t_base) ==
    row

\* UPDATE task_models SET t_base_1 = %s WHERE task_name = %s
update_baseline_row(row, new_t_base) ==
    IF row.exists THEN [row EXCEPT !.t_base_1 = new_t_base] ELSE row

\* a WHERE clause that wants the version after the expected one
version_matches_next_version(row, expected_version) ==
    row.exists /\ row.sample_count = expected_version + 1

\* the WHERE clause without the version test
version_matches_unversioned(row, expected_version) ==
    row.exists

\* update_model: ... WHERE task_name = %s AND sample_count = %s
version_matches(row, expected_version) ==
    row.exists /\ row.sample_count = expected_version

\* the SET clause without the increment of sample_count
update_model_row_same_version(row, new_p, new_k) ==
    [row EXCEPT !.p_obs = new_p, !.k_exponent = new_k]

\* update_model: SET p_obs = %s, k_exponent = %s, sample_count = sample_count + 1
update_model_row(row, new_p, new_k) ==
    [row EXCEPT !.p_obs = new_p, !.k_exponent = new_k, !.sample_count = row.sample_count + 1]

\* an INSERT that replaces the newest row
insert_history_overwriting(rows, run_data) ==
    IF rows = <<>> THEN <<run_data>> ELSE [rows EXCEPT ![Len(rows)] = run_data]

\* an INSERT that adds no row
insert_history_lost(rows, run_data) ==
    rows

\* update_model: INSERT INTO execution_history (...) VALUES (...)
insert_history(rows, run_data) ==
    Append(rows, run_data)

\* get_history: the newest limit rows
get_history(rows, limit) ==
    IF Len(rows) <= limit THEN rows ELSE SubSeq(rows, Len(rows) - limit + 1, Len(rows))

\* the store is empty, or holds rows that earlier cold starts of predict left
Init ==
    /\ task_models \in [Tasks -> {NoRow} \cup {initialize_task_row(0, in[1]) : in \in PredictInputs}]
    /\ execution_history = [t \in Tasks |-> <<>>]
    /\ pc = [w \in Workers |-> "idle"]
    /\ call = [w \in Workers |-> NoCall]
    /\ params = [w \in Workers |-> NoRow]
    /\ attempt = [w \in Workers |-> 0]
    /\ current_version = [w \in Workers |-> 0]
    /\ result = [w \in Workers |-> NoResult]
    /\ ncalls = 0
    /\ obs = [w \in Workers |-> NoObs]
    /\ solo = [w \in Workers |-> FALSE]
    /\ baseline_writers = [t \in Tasks |-> {}]
    /\ is_trained = [w \in Workers |-> FALSE]

\* ------------------------------------------------------------------------
\* The callers: a worker issues one call at a time
\* ------------------------------------------------------------------------

InCall(w) == pc[w] \notin {"idle", "returned"}

\* w issues the call c, which starts at the step first; limit bounds the
\* number of calls
Begin(w, c, first, limit) ==
    /\ ~InCall(w)
    /\ ncalls < limit
    /\ ncalls' = ncalls + 1
    /\ call' = [call EXCEPT ![w] = c]
    /\ pc' = [pc EXCEPT ![w] = first]
    /\ result' = [result EXCEPT ![w] = NoResult]
    /\ obs' = [obs EXCEPT ![w] = NoObs]
    /\ solo' = [x \in Workers |->
                  IF x = w THEN \A o \in Workers \ {w} : ~InCall(o) ELSE FALSE]
    /\ baseline_writers' = [t \in Tasks |->
                                IF w \in baseline_writers[t]
                                THEN (baseline_writers[t] \ {w}) \cup {"earlier"}
                                ELSE baseline_writers[t]]
    /\ UNCHANGED <<task_models, execution_history, params, attempt, current_version,
                   is_trained>>

CallPredict(w) ==
    \E t \in Tasks, in \in PredictInputs :
        Begin(w, [NoCall EXCEPT !.op = "predict", !.task_name = t, !.input_quantity = in[1],
                                !.max_time_slo = in[2]],
              "predict_get_model", MaxCalls)

FeedbackCall(t, in) ==
    [NoCall EXCEPT !.op = "feedback", !.task_name = t, !.s = in[1], !.gamma = in[2],
                   !.t_actual = in[3]]

CallFeedback(w) ==
    \E t \in Tasks, in \in FeedbackInputs :
        Begin(w, FeedbackCall(t, in), "feedback_get_model", MaxCalls)

\* a feedback call of a system whose workers only report
ReportFeedback(w) ==
    \E t \in Tasks, in \in FeedbackInputs :
        Begin(w, FeedbackCall(t, in), "feedback_get_model", MaxFeedbackCalls)

\* the call of w ends with r (a return value, or an exception raised to the
\* caller); its locals are gone
Finish(w, r) ==
    /\ pc' = [pc EXCEPT ![w] = "returned"]
    /\ result' = [result EXCEPT ![w] = r]
    /\ params' = [params EXCEPT ![w] = NoRow]
    /\ attempt' = [attempt EXCEPT ![w] = 0]
    /\ current_version' = [current_version EXCEPT ![w] = 0]

Returns(s, gamma, predicted_amdahl, predicted_residual, path) ==
    [kind |-> "return", s |-> s, gamma |-> gamma, predicted_amdahl |-> predicted_amdahl,
     predicted_residual |-> predicted_residual, exc |-> "none", path |-> path]

Raises(exc, path) == [NoResult EXCEPT !.kind = "raise", !.exc = exc, !.path = path]

\* ------------------------------------------------------------------------
\* ArboEstimator.predict
\* ------------------------------------------------------------------------

\* the calibration branch taken by every row without two samples
predict_branch_below_two(row) ==
    IF ~row.exists THEN "predict_initialize"
    ELSE IF row.sample_count <= 1 THEN "predict_calibration"
    ELSE "predict_search"

\* lines 32, 42, 58: the branch predict takes on the row it read
predict_branch(row) ==
    IF ~row.exists THEN "predict_initialize"
    ELSE IF row.sample_count = 1 THEN "predict_calibration"
    ELSE "predict_search"

\* line 29: params = self.store.get_task_model(task_name), and the branch taken
predict_get_model(w) ==
    /\ pc[w] = "predict_get_model"
    /\ LET row == task_models[call[w].task_name]
       IN  /\ params' = [params EXCEPT ![w] = row]
           /\ obs' = [obs EXCEPT ![w].first_sc = IF row.exists THEN row.sample_count ELSE -1,
                                 ![w].first_t_base = row.t_base_1]
           /\ pc' = [pc EXCEPT ![w] = predict_branch(row)]
    /\ UNCHANGED <<task_models, execution_history, call, attempt, current_version, result,
                   ncalls, solo, baseline_writers, is_trained>>

\* lines 32-35: cold start.  initialize_task raises TaskAlreadyExistsError on
\* a unique violation, and predict has no handler for it
predict_initialize(w) ==
    /\ pc[w] = "predict_initialize"
    /\ LET t == call[w].task_name
       IN  IF unique_violation(task_models[t])
           THEN /\ Finish(w, Raises("TaskAlreadyExistsError", "cold"))
                /\ UNCHANGED task_models
           ELSE /\ task_models' = [task_models EXCEPT
                                      ![t] = initialize_task_row(0, call[w].input_quantity)]
                /\ Finish(w, Returns(1, Scale, 0, 0, "cold"))
    /\ UNCHANGED <<execution_history, call, ncalls, obs, solo, baseline_writers, is_trained>>

\* lines 38-39
predict_gamma(w) ==
    IF params[w].base_input_quantity > 0
    THEN (IF call[w].input_quantity = Huge THEN Huge
          ELSE Div(call[w].input_quantity, params[w].base_input_quantity))
    ELSE Scale

\* the answers the residual model may give: zeros as long as it is not
\* trained, afterwards those of the regressor it has fitted
Profiles(trained) == IF ~trained THEN {<<0, 0>>} ELSE ResidualProfiles

\* a train that leaves is_trained as it is when the history is empty
train_keeps_fit(w, history_rows) ==
    is_trained' = [is_trained EXCEPT ![w] = @ \/ history_rows # <<>>]

\* ResidualModel.train, lines 31-42, when the fit succeeds
train(w, history_rows) ==
    is_trained' = [is_trained EXCEPT ![w] = history_rows # <<>>]

\* line 41: GaussianProcessRegressor.fit validates X and y and raises
\* ValueError when one of them holds a value that is not finite
fit_fails(history_rows) ==
    \E i \in 1..Len(history_rows) :
        NaN \in {history_rows[i].parallelism, history_rows[i].input_scale_factor,
                 history_rows[i].cluster_load, history_rows[i].residual}

\* lines 42-56: the calibration run
predict_calibration(w) ==
    /\ pc[w] = "predict_calibration"
    /\ LET history == get_history(execution_history[call[w].task_name], 10)
           gamma == predict_gamma(w)
       IN  IF fit_fails(history)
           THEN /\ Finish(w, Raises("ValueError", "calibration"))
                /\ UNCHANGED <<is_trained, obs>>
           ELSE /\ train(w, history)
                /\ \E profile \in Profiles(is_trained'[w]) :
                   LET residual == residual_predict(is_trained'[w], profile, calibration_s)
                       predicted_amdahl == calculate_theoretical_time(params[w].c_startup,
                                               gamma, params[w].t_base_1, params[w].p_obs,
                                               calibration_s, params[w].k_exponent)
                   IN  /\ obs' = [obs EXCEPT ![w].profile = profile,
                                             ![w].was_trained = is_trained[w]]
                       /\ Finish(w, Returns(calibration_s, gamma, predicted_amdahl,
                                            _sanitize_float(residual), "calibration"))
    /\ UNCHANGED <<task_models, execution_history, call, ncalls, solo, baseline_writers>>

\* lines 58-98: the search over the candidates
predict_search(w) ==
    /\ pc[w] = "predict_search"
    /\ LET history == get_history(execution_history[call[w].task_name], 50)
       IN  IF fit_fails(history)
           THEN /\ Finish(w, Raises("ValueError", "search"))
                /\ UNCHANGED <<is_trained, obs>>
           ELSE /\ train(w, history)
                /\ \E profile \in Profiles(is_trained'[w]) :
                   LET found == candidate_search(params[w], predict_gamma(w), is_trained'[w],
                                                 profile, call[w].max_time_slo)
                   IN  /\ obs' = [obs EXCEPT ![w].profile = profile,
                                             ![w].was_trained = is_trained[w]]
                       /\ Finish(w, Returns(found[1], found[2], found[3], found[4],
                                            "search"))
    /\ UNCHANGED <<task_models, execution_history, call, ncalls, solo, baseline_writers>>

\* ------------------------------------------------------------------------
\* ArboEstimator.feedback
\* ------------------------------------------------------------------------

\* line 126: "if not params or params['sample_count'] == 0"
feedback_branch(row) ==
    IF ~row.exists \/ row.sample_count = 0
    THEN "feedback_update_baseline"
    ELSE "feedback_update_model"

\* lines 121-126: load the model, record the version, choose the branch
feedback_get_model(w) ==
    /\ pc[w] = "feedback_get_model"
    /\ LET row == task_models[call[w].task_name]
       IN  /\ params' = [params EXCEPT ![w] = row]
           /\ current_version' = [current_version EXCEPT
                                     ![w] = IF row.exists THEN row.sample_count ELSE 0]
           /\ obs' = IF obs[w].first_sc = -2
                     THEN [obs EXCEPT ![w].first_sc =
                                          IF row.exists THEN row.sample_count ELSE -1,
                                      ![w].first_t_base = row.t_base_1]
                     ELSE obs
           /\ pc' = [pc EXCEPT ![w] = feedback_branch(row)]
    /\ UNCHANGED <<task_models, execution_history, call, attempt, result, ncalls, solo,
                   baseline_writers, is_trained>>

\* line 135: self.store.update_baseline(task_name, t_actual)
feedback_update_baseline(w) ==
    /\ pc[w] = "feedback_update_baseline"
    /\ LET t == call[w].task_name
           row == task_models[t]
       IN  /\ task_models' = [task_models EXCEPT
                                 ![t] = update_baseline_row(row, call[w].t_actual)]
           /\ obs' = [obs EXCEPT
                         ![w].base_writes = @ + (IF row.exists THEN 1 ELSE 0),
                         ![w].touched = @ \/ update_baseline_row(row, call[w].t_actual) # row]
           /\ baseline_writers' =
                  IF ~row.exists THEN baseline_writers
                  ELSE IF row.t_base_1 = call[w].t_actual
                  THEN [baseline_writers EXCEPT ![t] = @ \cup {w}]
                  ELSE [baseline_writers EXCEPT ![t] = {w}]
    /\ pc' = [pc EXCEPT ![w] = "feedback_baseline_update_model"]
    /\ UNCHANGED <<execution_history, call, params, attempt, current_version, result,
                   ncalls, solo, is_trained>>

\* an except clause that gives up instead of continuing the loop
next_attempt_gives_up(w) ==
    Finish(w, Returns(0, 0, 0, 0, "exhausted"))

\* "continue" out of an except clause: the next attempt of the loop, or, the
\* loop being over, line 210 and the return
next_attempt(w) ==
    IF attempt[w] + 1 < max_retries
    THEN /\ attempt' = [attempt EXCEPT ![w] = @ + 1]
         /\ pc' = [pc EXCEPT ![w] = "feedback_get_model"]
         /\ UNCHANGED <<result, params, current_version>>
    ELSE Finish(w, Returns(0, 0, 0, 0, "exhausted"))

\* store.update_model, lines 158-180, called by w with these arguments.  A
\* row that exists is never deleted, so when the UPDATE misses an existing
\* row the probe of line 163 finds it: StaleDataError.  When the UPDATE finds
\* no row at all, the probe is a later statement of the transaction
update_model(w, new_p, new_k, run_data, expected_version) ==
    LET t == call[w].task_name
        row == task_models[t]
        seen == IF row.exists THEN row.sample_count ELSE -1
    IN  IF version_matches(row, expected_version)
        THEN /\ task_models' = [task_models EXCEPT ![t] = update_model_row(row, new_p, new_k)]
             /\ execution_history' = [execution_history EXCEPT
                                          ![t] = insert_history(@, run_data)]
             /\ obs' = [obs EXCEPT ![w].um_calls = @ + 1, ![w].um_ev = expected_version,
                                   ![w].um_seen = seen, ![w].um_res = "ok",
                                   ![w].commit_version = expected_version]
             /\ Finish(w, Returns(0, 0, 0, 0, "committed"))
        ELSE IF row.exists
        THEN /\ obs' = [obs EXCEPT ![w].um_calls = @ + 1, ![w].um_ev = expected_version,
                                   ![w].um_seen = seen, ![w].um_res = "stale",
                                   ![w].stale = @ + 1]
             /\ next_attempt(w)
             /\ UNCHANGED <<task_models, execution_history>>
        ELSE /\ obs' = [obs EXCEPT ![w].um_calls = @ + 1, ![w].um_ev = expected_version,
                                   ![w].um_seen = seen, ![w].um_res = "probe"]
             /\ pc' = [pc EXCEPT ![w] = "update_model_probe"]
             /\ UNCHANGED <<task_models, execution_history, params, attempt, current_version,
                            result>>

\* store.update_model, lines 163-167, after an UPDATE that found no row
update_model_probe(w) ==
    /\ pc[w] = "update_model_probe"
    /\ IF task_models[call[w].task_name].exists
       THEN obs' = [obs EXCEPT ![w].um_res = "stale", ![w].stale = @ + 1]
       ELSE obs' = [obs EXCEPT ![w].um_res = "notfound", ![w].notfound = @ + 1]
    /\ next_attempt(w)
    /\ UNCHANGED <<task_models, execution_history, call, ncalls, solo, baseline_writers,
                   is_trained>>

\* lines 130-137: the baseline write's update_model(new_p=1, new_k=1, expected_version=0)
feedback_baseline_update_model(w) ==
    /\ pc[w] = "feedback_baseline_update_model"
    /\ LET c == call[w]
           cost == _cost_function(c.t_actual, c.s)
           run_data == _pack_run_data(c.s, c.gamma, c.cluster_load, c.t_actual, 0, cost,
                                      Scale, c.predicted_amdahl, c.predicted_residual)
       IN  update_model(w, Scale, Scale, run_data, 0)
    /\ UNCHANGED <<call, ncalls, solo, baseline_writers, is_trained>>

\* lines 145-190: the new p and k and the residual, from the row read
learned(c, row) ==
    LET current_k == row.k_exponent
        p_current == calculate_current_p(c.s, c.t_actual, row.c_startup, row.t_base_1,
                                         c.gamma, current_k)
        new_p == update_moving_average(row.p_obs, p_current, row.alpha_p)
        k_current == calculate_current_k(c.s, c.t_actual, row.c_startup, row.t_base_1,
                                         c.gamma, new_p)
        new_k == update_moving_average(current_k, k_current, row.alpha_k)
        t_theory == calculate_theoretical_time(row.c_startup, c.gamma, row.t_base_1,
                                               new_p, c.s, new_k)
    IN  [new_p |-> new_p, new_k |-> new_k, residual |-> c.t_actual - t_theory]

\* lines 145-201: the update of a task that has its baseline
feedback_update_model(w) ==
    /\ pc[w] = "feedback_update_model"
    /\ LET c == call[w]
           l == learned(c, params[w])
           cost == _cost_function(c.t_actual, c.s)
           run_data == _pack_run_data(c.s, c.gamma, c.cluster_load, c.t_actual, l.residual,
                                      cost, l.new_p, c.predicted_amdahl, c.predicted_residual)
       IN  update_model(w, l.new_p, l.new_k, run_data, current_version[w])
    /\ UNCHANGED <<call, ncalls, solo, baseline_writers, is_trained>>

\* ------------------------------------------------------------------------
\* The system
\* ------------------------------------------------------------------------

Next ==
    \E w \in Callers :
        \/ CallPredict(w)
        \/ CallFeedback(w)
        \/ predict_get_model(w)
        \/ predict_initialize(w)
        \/ predict_calibration(w)
        \/ predict_search(w)
        \/ feedback_get_model(w)
        \/ feedback_update_baseline(w)
        \/ feedback_baseline_update_model(w)
        \/ feedback_update_model(w)
        \/ update_model_probe(w)

Spec == Init /\ [][Next]_vars

\* the workers only report finished runs: feedback calls alone
NextFeedback ==
    \E w \in Callers :
        \/ ReportFeedback(w)
        \/ feedback_get_model(w)
        \/ feedback_update_baseline(w)
        \/ feedback_baseline_update_model(w)
        \/ feedback_update_model(w)
        \/ update_model_probe(w)

SpecFeedback == Init /\ [][NextFeedback]_vars

\* A task that has its baseline: the row initialize_task(task_name, t_base,
\* base_input_quantity, p, c_startup, alpha_p) created, with the
\* sample_count and the k_exponent it has after earlier runs
task_row(t_base, p, k, c_startup, alpha_p, sample_count) ==
    [exists |-> TRUE, t_base_1 |-> t_base, base_input_quantity |-> 100, p_obs |-> p,
     k_exponent |-> k, c_startup |-> c_startup, alpha_p |-> alpha_p,
     alpha_k |-> default_alpha_k, sample_count |-> sample_count]

LearnRows ==
    {task_row(t_base, p, k, c_startup, alpha_p, 1) :
        t_base \in {10000, 20000}, p \in {50, 80}, k \in {Scale, 2 * Scale},
        c_startup \in {0, 500}, alpha_p \in {50, default_alpha_p}}

InitLearn ==
    /\ task_models \in [Tasks -> LearnRows]
    /\ execution_history = [t \in Tasks |-> <<>>]
    /\ pc = [w \in Workers |-> "idle"]
    /\ call = [w \in Workers |-> NoCall]
    /\ params = [w \in Workers |-> NoRow]
    /\ attempt = [w \in Workers |-> 0]
    /\ current_version = [w \in Workers |-> 0]
    /\ result = [w \in Workers |-> NoResult]
    /\ ncalls = 0
    /\ obs = [w \in Workers |-> NoObs]
    /\ solo = [w \in Workers |-> FALSE]
    /\ baseline_writers = [t \in Tasks |-> {}]
    /\ is_trained = [w \in Workers |-> FALSE]

\* a worker reports a run
ReportRun(w) ==
    \E t \in Tasks, in \in LearnInputs :
        Begin(w, FeedbackCall(t, in), "feedback_get_model", MaxLearnCalls)

\* a worker reports a run that took what Amdahl's law gives for the task's
\* row and a true parallel fraction p
ReportTheoretical(w) ==
    \E t \in Tasks, run \in TheoreticalRuns :
        LET row == task_models[t]
            t_pred == calculate_theoretical_time(row.c_startup, run[2], row.t_base_1,
                                                 run[3], run[1], row.k_exponent)
        IN  Begin(w, FeedbackCall(t, <<run[1], run[2], t_pred>>), "feedback_get_model",
                  MaxLearnCalls)

NextLearn ==
    \E w \in Callers :
        \/ ReportRun(w)
        \/ ReportTheoretical(w)
        \/ feedback_get_model(w)
        \/ feedback_update_model(w)

SpecLearn == InitLearn /\ [][NextLearn]_vars

\* ------------------------------------------------------------------------
\* predict on the tasks of a running system
\* ------------------------------------------------------------------------

\* the history row feedback writes for a run: lines 130-133 and 188-191
history_row(cluster_load, residual) ==
    _pack_run_data(2, Scale, cluster_load, 6000, residual, _cost_function(6000, 2), 80, 0, 0)

\* a task as predict may find it: not there; as a cold start left it; with
\* its baseline and the history row of the run that set it; with two or
\* more samples.  A row whose cluster_load is nan is one of a run reported
\* with the load that get_cluster_load read from Prometheus as "NaN"
SearchTasks ==
    {<<NoRow, <<>>>>, <<initialize_task_row(0, 100), <<>>>>}
    \cup {<<task_row(t_base, Scale, Scale, c_startup, default_alpha_p, 1),
            <<history_row(load, 0)>>>> :
              t_base \in {10000}, c_startup \in {0, default_c_startup}, load \in {30, NaN}}
    \cup {<<task_row(t_base, p, k, c_startup, default_alpha_p, 2),
            <<history_row(30, 0), history_row(load, -300)>>>> :
              t_base \in {0, 10000}, p \in {80, 99}, k \in {Scale}, c_startup \in {0, default_c_startup},
              load \in {30, NaN}}

\* the estimator of a worker may have fitted its residual model in an
\* earlier predict, for this task or another
InitSearch ==
    /\ \E st \in SearchTasks :
          /\ task_models = [t \in Tasks |-> st[1]]
          /\ execution_history = [t \in Tasks |-> st[2]]
    /\ pc = [w \in Workers |-> "idle"]
    /\ call = [w \in Workers |-> NoCall]
    /\ params = [w \in Workers |-> NoRow]
    /\ attempt = [w \in Workers |-> 0]
    /\ current_version = [w \in Workers |-> 0]
    /\ result = [w \in Workers |-> NoResult]
    /\ ncalls = 0
    /\ obs = [w \in Workers |-> NoObs]
    /\ solo = [w \in Workers |-> FALSE]
    /\ baseline_writers = [t \in Tasks |-> {}]
    /\ is_trained \in [Workers -> BOOLEAN]
    /\ \A w \in Workers \ Callers : ~is_trained[w]

SearchPredict(w) ==
    \E t \in Tasks, in \in SearchInputs :
        Begin(w, [NoCall EXCEPT !.op = "predict", !.task_name = t, !.input_quantity = in[1],
                                !.max_time_slo = in[2]],
              "predict_get_model", MaxSearchCalls)

NextSearch ==
    \E w \in Callers :
        \/ SearchPredict(w)
        \/ predict_get_model(w)
        \/ predict_initialize(w)
        \/ predict_calibration(w)
        \/ predict_search(w)

SpecSearch == InitSearch /\ [][NextSearch]_vars

\* ------------------------------------------------------------------------
\* arbo_lib.airflow.optimizer.ArboOptimizer.report_success
\* ------------------------------------------------------------------------

Value(x) == [kind |-> "value", value |-> x, exc |-> "none"]
NoValue == [kind |-> "none", value |-> 0, exc |-> "none"]
Raised(exc) == [kind |-> "raise", value |-> 0, exc |-> exc]

\* lines 297-313: None when the authentication fails
_get_bearer_token(outcome) ==
    IF outcome = "auth_failed" THEN NoValue ELSE Value(1)

\* requests.get and raise_for_status raise: the server is not reached or
\* answers with an error status, as it does to "Bearer None"
request_fails(bearer_token, outcome) ==
    bearer_token.kind = "none" \/ outcome = "http_error"

\* lines 213-238: only the request is inside try; strptime raises TypeError
\* on a date that is null and ValueError on one that is not in the format
_get_task_duration(bearer_token, outcome, duration) ==
    IF request_fails(bearer_token, outcome) THEN NoValue
    ELSE IF outcome = "no_timing" THEN Raised("TypeError")
    ELSE IF outcome = "bad_timing" THEN Raised("ValueError")
    ELSE IF outcome = "no_duration" THEN NoValue
    ELSE Value(duration)

\* lines 259-295: the whole body is inside try.  No task of the group, or
\* none with a start_date and none with an end_date, gives None
_get_task_group_metrics(bearer_token, outcome, duration) ==
    IF request_fails(bearer_token, outcome) THEN NoValue
    ELSE IF outcome \in {"no_duration", "no_timing", "bad_timing"} THEN NoValue
    ELSE Value(duration)

CallReportSuccess(w) ==
    \E t \in Tasks, in \in ReportInputs, is_group \in BOOLEAN, outcome \in ProbeOutcomes :
        Begin(w, [NoCall EXCEPT !.op = "report_success", !.task_name = t, !.s = in[1],
                                !.gamma = in[2], !.fallback_duration = in[3],
                                !.is_group = is_group, !.probe = outcome, !.probed = in[4]],
              "report_success", MaxReportCalls)

\* lines 90-107: the probe, the fallback, and the call of estimator.feedback
report_success(w) ==
    /\ pc[w] = "report_success"
    /\ LET c == call[w]
           bearer_token == _get_bearer_token(c.probe)
           probe == IF c.is_group
                    THEN _get_task_group_metrics(bearer_token, c.probe, c.probed)
                    ELSE _get_task_duration(bearer_token, c.probe, c.probed)
           actual_duration == IF probe.kind = "none" THEN c.fallback_duration
                              ELSE probe.value
       IN  IF probe.kind = "raise"
           THEN /\ Finish(w, Raises(probe.exc, "report_success"))
                /\ UNCHANGED <<call, obs>>
           ELSE /\ call' = [call EXCEPT ![w].op = "feedback",
                                        ![w].t_actual = actual_duration]
                /\ obs' = [obs EXCEPT ![w].fb_calls = @ + 1]
                /\ pc' = [pc EXCEPT ![w] = "feedback_get_model"]
                /\ UNCHANGED <<result, params, attempt, current_version>>
    /\ UNCHANGED <<task_models, execution_history, ncalls, solo, baseline_writers,
                   is_trained>>

NextReport ==
    \E w \in Callers :
        \/ CallReportSuccess(w)
        \/ report_success(w)
        \/ feedback_get_model(w)
        \/ feedback_update_baseline(w)
        \/ feedback_baseline_update_model(w)
        \/ feedback_update_model(w)
        \/ update_model_probe(w)

SpecReport == Init /\ [][NextReport]_vars

\* ------------------------------------------------------------------------
\* feedback calls of three workers on a task that has its row
\* ------------------------------------------------------------------------

\* the task as a cold start left it, or with its baseline and first sample.
\* The second was initialised with c_startup = 5 s; no statement changes
\* c_startup, so StartCount gives the sample_count a task started with
ConcurrentTasks ==
    {<<initialize_task_row(0, 100), <<>>>>,
     <<task_row(21000, Scale, Scale, 500, default_alpha_p, 1),
       <<_pack_run_data(1, Scale, 0, 21000, 0, _cost_function(21000, 1), Scale, 0, 0)>>>>}

StartCount(row) == IF row.c_startup = default_c_startup THEN 0 ELSE 1

InitConcurrent ==
    /\ \E ct \in ConcurrentTasks :
          /\ task_models = [t \in Tasks |-> ct[1]]
          /\ execution_history = [t \in Tasks |-> ct[2]]
    /\ pc = [w \in Workers |-> "idle"]
    /\ call = [w \in Workers |-> NoCall]
    /\ params = [w \in Workers |-> NoRow]
    /\ attempt = [w \in Workers |-> 0]
    /\ current_version = [w \in Workers |-> 0]
    /\ result = [w \in Workers |-> NoResult]
    /\ ncalls = 0
    /\ obs = [w \in Workers |-> NoObs]
    /\ solo = [w \in Workers |-> FALSE]
    /\ baseline_writers = [t \in Tasks |-> {}]
    /\ is_trained = [w \in Workers |-> FALSE]

ConcurrentFeedback(w) ==
    \E t \in Tasks, in \in FeedbackInputs :
        Begin(w, FeedbackCall(t, in), "feedback_get_model", MaxConcurrentCalls)

NextConcurrent ==
    \E w \in Workers :
        \/ ConcurrentFeedback(w)
        \/ feedback_get_model(w)
        \/ feedback_update_baseline(w)
        \/ feedback_baseline_update_model(w)
        \/ feedback_update_model(w)

SpecConcurrent == InitConcurrent /\ [][NextConcurrent]_vars

TypeOK ==
    /\ \A t \in Tasks : task_models[t].sample_count \in 0..MaxFeedbackCalls
    /\ \A w \in Workers : attempt[w] \in 0..(max_retries - 1)
    /\ ncalls \in 0..MaxFeedbackCalls

\* ------------------------------------------------------------------------
\* Properties
\* ------------------------------------------------------------------------

Finished(w, op) == pc[w] = "returned" /\ call[w].op = op

\* the last update_model call of w has run to its end
UpdateModelDone(w) == obs[w].um_res \in {"ok", "stale", "notfound"}

\* w1 and w2 each made an update_model call for the same task, which had its
\* row, with the same expected_version, and the row had that version when
\* the first of the two ran
SameVersionPair(w1, w2) ==
    /\ w1 # w2
    /\ call[w1].task_name = call[w2].task_name
    /\ UpdateModelDone(w1) /\ UpdateModelDone(w2)
    /\ obs[w1].um_seen >= 0 /\ obs[w2].um_seen >= 0
    /\ obs[w1].um_ev = obs[w2].um_ev
    /\ obs[w1].um_seen = obs[w1].um_ev \/ obs[w2].um_seen = obs[w2].um_ev

\* C1: of two update_model calls for one task with the same expected_version
\* v, made against a row at version v, exactly one commits, leaving
\* sample_count = v + 1 and one more history row, and the other raises
\* StaleDataError
C1_one_commit_one_stale ==
    \A w1, w2 \in Workers :
        SameVersionPair(w1, w2) =>
            LET t == call[w1].task_name
                v == obs[w1].um_ev
            IN  /\ {obs[w1].um_res, obs[w2].um_res} = {"ok", "stale"}
                /\ task_models[t].sample_count = v + 1
                /\ Len(execution_history[t]) = v + 1

C1_witness ==
    \E w1, w2 \in Workers :
        /\ SameVersionPair(w1, w2)
        /\ obs[w1].um_ev >= 1
        /\ obs[w1].um_res = "ok"
        /\ obs[w2].um_res = "stale"

\* w1 and w2 have both returned from feedback calls for the same task that
\* both read the row at sample_count = n first
FeedbackPair(w1, w2, n) ==
    /\ w1 # w2
    /\ Finished(w1, "feedback") /\ Finished(w2, "feedback")
    /\ call[w1].task_name = call[w2].task_name
    /\ obs[w1].first_sc = n /\ obs[w2].first_sc = n

\* the history row r is the row of the call c
RowOf(r, c) ==
    /\ r.parallelism = c.s
    /\ r.input_scale_factor = c.gamma
    /\ r.total_duration = c.t_actual

\* C2: two feedback calls for one task that both start at sample_count = n,
\* n >= 1, both commit: one of them meets StaleDataError once and commits on
\* its retry, sample_count ends at n + 2 and the last two history rows are
\* the rows of the two calls
C2_both_commit ==
    \A w1, w2 \in Workers : \A n \in 1..MaxCalls :
        FeedbackPair(w1, w2, n) =>
            LET t == call[w1].task_name
                h == execution_history[t]
            IN  /\ result[w1].path = "committed" /\ result[w2].path = "committed"
                /\ {obs[w1].stale, obs[w2].stale} = {0, 1}
                /\ {obs[w1].commit_version, obs[w2].commit_version} = {n, n + 1}
                /\ task_models[t].sample_count = n + 2
                /\ Len(h) = n + 2
                /\ \/ RowOf(h[n + 1], call[w1]) /\ RowOf(h[n + 2], call[w2])
                   \/ RowOf(h[n + 1], call[w2]) /\ RowOf(h[n + 2], call[w1])

C2_witness ==
    \E w1, w2 \in Workers :
        /\ FeedbackPair(w1, w2, 1)
        /\ call[w1] # call[w2]
        /\ obs[w1].stale = 0 /\ obs[w2].stale = 1
        /\ result[w2].path = "committed"
        /\ task_models[call[w1].task_name].sample_count = 3


\* C3: a feedback call that has used up its attempts on StaleDataError has
\* left nothing in the store: the value of t_base_1 is not one that only this
\* call wrote, and no history row is its row
C3_exhausted_without_effect ==
    \A w \in Workers :
        (/\ Finished(w, "feedback")
         /\ result[w].path = "exhausted"
         /\ obs[w].stale = max_retries) =>
            LET t == call[w].task_name
                h == execution_history[t]
            IN  /\ baseline_writers[t] # {w}
                /\ obs[w].commit_version = -1

\* how far the feedback call of w has got: the attempt it is in and the step
\* of that attempt
Progress(w) ==
    attempt[w] * 4 + (CASE pc[w] = "feedback_get_model" -> 0
                        [] pc[w] = "feedback_update_baseline" -> 1
                        [] pc[w] = "feedback_baseline_update_model" -> 2
                        [] pc[w] = "feedback_update_model" -> 2
                        [] pc[w] = "update_model_probe" -> 3
                        [] OTHER -> 0)

\* C4: a feedback call makes at most 3 attempts, so at most 3 update_model
\* calls; every step of it either returns or takes it further through these
\* attempts, so it ends; and what it gives its caller is never an exception
C4_at_most_three_attempts ==
    /\ [](\A w \in Workers :
             call[w].op = "feedback" =>
                 /\ attempt[w] < 3
                 /\ Progress(w) < 3 * 4
                 /\ obs[w].um_calls <= 3
                 /\ obs[w].stale + obs[w].notfound <= 3
                 /\ result[w].kind # "raise"
                 /\ pc[w] = "returned" => result[w].kind = "return")
    /\ [][\E w \in Workers :
             /\ pc'[w] # pc[w] \/ attempt'[w] # attempt[w]
             /\ (call[w].op = "feedback" /\ InCall(w)) =>
                    \/ pc'[w] = "returned" /\ result'[w].kind = "return"
                    \/ InCall(w)' /\ Progress(w)' > Progress(w)]_vars

C4_witness ==
    \E w1, w2 \in Workers :
        /\ Finished(w1, "feedback")
        /\ result[w1].path = "exhausted" /\ result[w1].kind = "return"
        /\ obs[w1].um_calls = 3 /\ obs[w1].stale = 3
        /\ Finished(w2, "feedback") /\ result[w2].path = "committed"


\* C5: when predict finds no row for the task and its insert finds none
\* either, it returns (s = 1, gamma = 1.0, 0, 0) and leaves exactly the row
\* with sample_count = 0, t_base_1 = 0 and base_input_quantity = its
\* input_quantity, and no history row
C5_cold_start ==
    [][\A w \in Workers :
          (/\ pc[w] = "predict_initialize"
           /\ pc'[w] = "returned"
           /\ ~task_models[call[w].task_name].exists) =>
              LET t == call[w].task_name
                  row == task_models'[t]
              IN  /\ result'[w].kind = "return"
                  /\ result'[w].s = 1
                  /\ result'[w].gamma = Scale
                  /\ result'[w].predicted_amdahl = 0
                  /\ result'[w].predicted_residual = 0
                  /\ row.exists
                  /\ row.sample_count = 0
                  /\ row.t_base_1 = 0
                  /\ row.base_input_quantity = call[w].input_quantity
                  /\ execution_history'[t] = <<>>
                  /\ \A u \in Tasks \ {t} : task_models'[u] = task_models[u]]_vars

C5_witness ==
    \E w \in Workers :
        /\ Finished(w, "predict")
        /\ result[w] = Returns(1, Scale, 0, 0, "cold")
        /\ call[w].input_quantity = 200
        /\ task_models[call[w].task_name] = initialize_task_row(0, 200)
        /\ execution_history[call[w].task_name] = <<>>

\* C6: a feedback call that runs alone on a row with sample_count = 0 and
\* t_base_1 = 0 leaves the row with t_base_1 = t_actual, p_obs = 1.0,
\* k_exponent = 1.0, sample_count = 1 and its other fields as they were, and
\* the history with one row, of residual 0 and p_snapshot 1.0
C6_first_feedback ==
    [][\A w \in Workers :
          (/\ solo[w]
           /\ call[w].op = "feedback"
           /\ obs[w].first_sc = 0 /\ obs[w].first_t_base = 0
           /\ pc[w] = "feedback_baseline_update_model"
           /\ pc'[w] # pc[w]) =>
              LET t == call[w].task_name
                  h == execution_history'[t]
              IN  /\ pc'[w] = "returned"
                  /\ result'[w].path = "committed"
                  /\ task_models'[t] = [params[w] EXCEPT !.t_base_1 = call[w].t_actual,
                                                         !.sample_count = 1]
                  /\ task_models'[t].p_obs = Scale
                  /\ task_models'[t].k_exponent = Scale
                  /\ task_models'[t].base_input_quantity = params[w].base_input_quantity
                  /\ Len(h) = 1
                  /\ h[1].residual = 0
                  /\ h[1].p_snapshot = Scale
                  /\ h[1].total_duration = call[w].t_actual]_vars

C6_witness ==
    \E w \in Workers :
        /\ Finished(w, "feedback")
        /\ solo[w]
        /\ obs[w].first_sc = 0 /\ obs[w].first_t_base = 0
        /\ result[w].path = "committed"
        /\ task_models[call[w].task_name].t_base_1 = 21000
        /\ task_models[call[w].task_name].sample_count = 1
        /\ Len(execution_history[call[w].task_name]) = 1

\* C7 as stated, on the rows it names (one sample, two or more): predict
\* returns s = 5 exactly when the row it read has sample_count = 1
C7_five_iff_one_sample ==
    \A w \in Workers :
        (Finished(w, "predict") /\ result[w].kind = "return" /\ obs[w].first_sc >= 1) =>
            (result[w].s = calibration_s <=> obs[w].first_sc = 1)

\* C7: predict takes the forced calibration value, s = 5, exactly when the
\* row it read has sample_count = 1; on a row with any other sample_count
\* the s it returns is the result of the candidate search
C7_forced_iff_one_sample ==
    \A w \in Workers :
        (Finished(w, "predict") /\ result[w].kind = "return") =>
            /\ result[w].path = "calibration" <=> obs[w].first_sc = 1
            /\ result[w].path = "calibration" => result[w].s = calibration_s
            /\ obs[w].first_sc >= 2 => result[w].path = "search"
            /\ obs[w].first_sc = 0 => result[w].path = "search"

C7_witness ==
    \E w \in Workers :
        /\ Finished(w, "predict") /\ result[w].path = "calibration"
        /\ result[w].s = calibration_s /\ obs[w].first_sc = 1
        /\ task_models[call[w].task_name].sample_count = 2

\* C8: a predict that reads a row with sample_count = 0 returns s = 1
C8_uninit_returns_one ==
    \A w \in Workers :
        (Finished(w, "predict") /\ obs[w].first_sc = 0) =>
            result[w].kind = "return" /\ result[w].s = 1

\* C9: sample_count never decreases and changes only in the step of an
\* update_model call that commits, which adds exactly 1 to it and one row to
\* the history
C9_sample_count_steps ==
    [][\A t \in Tasks :
          LET Commits(w) == /\ call[w].task_name = t
                            /\ obs'[w].um_calls = obs[w].um_calls + 1
                            /\ obs'[w].um_res = "ok"
          IN  /\ task_models'[t].sample_count >= task_models[t].sample_count
              /\ task_models'[t].sample_count # task_models[t].sample_count =>
                     \E w \in Workers : Commits(w)
              /\ \A w \in Workers :
                     Commits(w) =>
                         /\ task_models'[t].sample_count = task_models[t].sample_count + 1
                         /\ Len(execution_history'[t]) = Len(execution_history[t]) + 1
                         /\ result'[w].path = "committed"]_vars

C9_witness ==
    \E t \in Tasks, w \in Workers :
        /\ task_models[t].sample_count = 2
        /\ Finished(w, "feedback") /\ obs[w].commit_version = 1
        /\ Len(execution_history[t]) = 2

\* C10: a predict call never fails: the one that loses the race of the
\* inserts reads the row and returns a prediction
C10_insert_loser_returns ==
    \A w \in Workers :
        Finished(w, "predict") => result[w].kind = "return"


\* C11 as stated: update_baseline writes the row of a task once, and the
\* call that wrote it is the one that commits update_model with
\* expected_version = 0: the calls in flight or last returned have made one
\* such write between them, and one that has returned has committed at
\* version 0
C11_baseline_written_once ==
    \A w1, w2 \in Workers :
        /\ (w1 # w2 /\ call[w1].task_name = call[w2].task_name) =>
               obs[w1].base_writes + obs[w2].base_writes <= 1
        /\ (Finished(w1, "feedback") /\ obs[w1].base_writes >= 1) =>
               obs[w1].base_writes = 1 /\ obs[w1].commit_version = 0

\* C12: once a task has sample_count >= 1, no step changes its t_base_1
C12_baseline_frozen ==
    [][\A t \in Tasks :
          task_models[t].sample_count >= 1 =>
              task_models'[t].t_base_1 = task_models[t].t_base_1]_vars


\* C13 as stated: every task row has 0.01 <= p_obs <= 0.99
C13_p_obs_below_one ==
    \A t \in Tasks :
        task_models[t].exists => 1 <= task_models[t].p_obs /\ task_models[t].p_obs <= 99

\* the step commits an update_model call of w
CommitStep(w) ==
    /\ obs'[w].um_calls = obs[w].um_calls + 1
    /\ obs'[w].um_res = "ok"

\* C13: every task row has 0.01 <= p_obs <= 1.0: it is created with 1.0, and
\* a committed feedback writes 1.0, the value it read, or the moving average
\* of the value it read with an inferred p in [0.01, 0.99]
C13_p_obs_in_unit_interval ==
    /\ [](\A t \in Tasks :
             task_models[t].exists =>
                 1 <= task_models[t].p_obs /\ task_models[t].p_obs <= Scale)
    /\ [][\A w \in Workers :
             CommitStep(w) =>
                 LET new_p == task_models'[call[w].task_name].p_obs
                 IN  \/ new_p = Scale
                     \/ new_p = params[w].p_obs
                     \/ \E p_current \in 1..99 :
                           new_p = update_moving_average(params[w].p_obs, p_current,
                                                         params[w].alpha_p)]_vars

C13_witness ==
    \E t \in Tasks :
        /\ task_models[t].sample_count = 2
        /\ task_models[t].p_obs < Scale
        /\ \E i \in 1..2 : execution_history[t][i].p_snapshot = Scale

\* C14: every task row has 0.5 <= k_exponent <= 3.0: it is created with 1.0,
\* and a committed feedback writes 1.0, the value it read, or the moving
\* average of the value it read with an inferred k in [0.5, 3.0]
C14_k_exponent_in_range ==
    /\ [](\A t \in Tasks :
             task_models[t].exists =>
                 50 <= task_models[t].k_exponent /\ task_models[t].k_exponent <= 300)
    /\ [][\A w \in Workers :
             CommitStep(w) =>
                 LET new_k == task_models'[call[w].task_name].k_exponent
                 IN  \/ new_k = Scale
                     \/ new_k = params[w].k_exponent
                     \/ \E k_current \in 50..300 :
                           new_k = update_moving_average(params[w].k_exponent, k_current,
                                                         params[w].alpha_k)]_vars

C14_witness ==
    \E t \in Tasks, w \in Workers :
        /\ Finished(w, "feedback") /\ obs[w].commit_version >= 1
        /\ call[w].gamma = 200
        /\ task_models[t].k_exponent # Scale
        /\ task_models[t].sample_count = 2


\* C15: a task with sample_count >= 1 has t_base_1 different from 0
C15_baseline_set_with_first_sample ==
    \A t \in Tasks :
        (task_models[t].exists /\ task_models[t].sample_count >= 1) =>
            task_models[t].t_base_1 # 0

\* the step carries out a statement of an update_model call of w: the
\* UPDATE, or the probe that follows an UPDATE that found no row
UpdateModelStep(w) ==
    \/ obs'[w].um_calls = obs[w].um_calls + 1
    \/ pc[w] = "update_model_probe" /\ pc'[w] # pc[w]

\* C16: an update_model call that does not commit leaves both tables as they
\* are, raising StaleDataError only when the task has a row and
\* TaskNotFoundError only when it has none; and in every step the model row
\* of a task is updated (p_obs, k_exponent, sample_count) exactly when one
\* row is added to its history
C16_update_model_all_or_nothing ==
    /\ [][\A w \in Workers :
             (UpdateModelStep(w) /\ obs'[w].um_res # "ok") =>
                 /\ task_models' = task_models
                 /\ execution_history' = execution_history
                 /\ obs'[w].um_res = "stale" => task_models[call[w].task_name].exists
                 /\ obs'[w].um_res = "notfound" => ~task_models[call[w].task_name].exists]_vars
    /\ [][\A w \in Workers :
             LET row == task_models[call[w].task_name]
             IN  /\ (obs'[w].um_calls = obs[w].um_calls + 1 /\ row.exists) =>
                        IF row.sample_count = obs'[w].um_ev
                        THEN obs'[w].um_res = "ok"
                        ELSE obs'[w].um_res = "stale"
                 /\ (pc[w] = "update_model_probe" /\ pc'[w] # pc[w] /\ ~row.exists) =>
                        obs'[w].um_res = "notfound"]_vars
    /\ [][\A t \in Tasks :
             LET row == task_models[t]
                 new == task_models'[t]
                 updated == /\ row.exists
                            /\ \/ new.sample_count # row.sample_count
                               \/ new.p_obs # row.p_obs
                               \/ new.k_exponent # row.k_exponent
                 added == execution_history'[t] # execution_history[t]
             IN  /\ updated => added
                 /\ added => /\ row.exists
                             /\ new.sample_count = row.sample_count + 1
                             /\ Len(execution_history'[t]) = Len(execution_history[t]) + 1]_vars

C16_witness ==
    \E w1, w2 \in Workers :
        /\ obs[w1].um_res = "stale"
        /\ obs[w2].notfound >= 1
        /\ task_models[call[w1].task_name].sample_count = 1
        /\ Len(execution_history[call[w1].task_name]) = 1

\* C17: a feedback call that has met TaskNotFoundError makes no further
\* attempt: it has returned, having made that one update_model call and no
\* store call after it
C17_not_found_aborts ==
    \A w \in Workers :
        (call[w].op = "feedback" /\ obs[w].notfound >= 1) =>
            /\ pc[w] = "returned"
            /\ obs[w].notfound = 1
            /\ obs[w].um_res = "notfound"


\* C18: initialize_task for a task that already has a row raises
\* TaskAlreadyExistsError and leaves that row, every field of it, and the
\* history as they are
C18_initialize_existing_fails ==
    [][\A w \in Workers :
          (/\ pc[w] = "predict_initialize"
           /\ pc'[w] # pc[w]
           /\ task_models[call[w].task_name].exists) =>
              /\ result'[w].kind = "raise"
              /\ result'[w].exc = "TaskAlreadyExistsError"
              /\ task_models' = task_models
              /\ execution_history' = execution_history]_vars

C18_witness ==
    \E w \in Workers :
        /\ Finished(w, "predict")
        /\ result[w].exc = "TaskAlreadyExistsError"
        /\ task_models[call[w].task_name].sample_count = 1
        /\ task_models[call[w].task_name].t_base_1 # 0
        /\ task_models[call[w].task_name].base_input_quantity # call[w].input_quantity
        /\ Len(execution_history[call[w].task_name]) = 1

\* C19: no step deletes a task row, deletes a history row or changes an
\* existing history row: the history of a task is unchanged or extended by
\* exactly one new row
C19_rows_never_deleted ==
    [][\A t \in Tasks :
          LET old == execution_history[t]
              new == execution_history'[t]
          IN  /\ task_models[t].exists => task_models'[t].exists
              /\ \/ new = old
                 \/ /\ Len(new) = Len(old) + 1
                    /\ SubSeq(new, 1, Len(old)) = old]_vars

C19_witness ==
    \E t \in Tasks :
        /\ task_models[t].exists
        /\ Len(execution_history[t]) = 3
        /\ execution_history[t][1] # execution_history[t][2]
        /\ execution_history[t][2] # execution_history[t][3]

\* C20: a feedback that commits on a task with sample_count >= 1 keeps p_obs
\* when s <= 1 and keeps k_exponent when 0.99 <= gamma <= 1.01; sample_count
\* still goes up by 1 and one history row is appended
C20_missing_sample_keeps_parameter ==
    [][\A w \in Workers :
          LET t == call[w].task_name
              row == task_models[t]
              new == task_models'[t]
          IN  (/\ pc[w] = "feedback_update_model"
               /\ CommitStep(w)
               /\ row.sample_count >= 1) =>
                  /\ call[w].s <= 1 => new.p_obs = row.p_obs
                  /\ (99 <= call[w].gamma /\ call[w].gamma <= 101) =>
                         new.k_exponent = row.k_exponent
                  /\ new.sample_count = row.sample_count + 1
                  /\ Len(execution_history'[t]) = Len(execution_history[t]) + 1]_vars

C20_witness ==
    \E w \in Workers :
        LET t == call[w].task_name
        IN  /\ Finished(w, "feedback")
            /\ call[w].s = 1
            /\ call[w].gamma = Scale
            /\ obs[w].um_res = "ok"
            /\ obs[w].commit_version = 2
            /\ task_models[t].sample_count = 3
            /\ task_models[t].p_obs # Scale
            /\ task_models[t].k_exponent # Scale
            /\ execution_history[t][3].p_snapshot = execution_history[t][2].p_snapshot


\* the p a reported run implies for the row, before the clamp:
\* (s / (s - 1)) * (1 - max(0, t_actual - c_startup) / (gamma ** k * t_base_1))
implied_p(c, row) ==
    (c.s * (Scale - Div(Max(0, c.t_actual - row.c_startup),
                        Mul(Pow(c.gamma, row.k_exponent), row.t_base_1)))) \div (c.s - 1)

\* C21: a feedback that commits on a task with sample_count >= 1, with
\* s >= 2 and t_base_1 > 0 (and gamma ** k * t_base_1, the divisor of the
\* formula, not 0), writes p_obs = alpha_p * p_obs_old + (1 - alpha_p) *
\* clamp(implied p, 0.01, 0.99) and sample_count + 1
C21_p_obs_moving_average ==
    [][\A w \in Workers :
          LET c == call[w]
              row == task_models[c.task_name]
              new == task_models'[c.task_name]
          IN  (/\ pc[w] = "feedback_update_model"
               /\ CommitStep(w)
               /\ row.sample_count >= 1
               /\ c.s >= 2
               /\ row.t_base_1 > 0
               /\ Pow(c.gamma, row.k_exponent) > 0) =>
                  /\ new.p_obs = (row.alpha_p * row.p_obs
                                  + (Scale - row.alpha_p) * Max(1, Min(99, implied_p(c, row))))
                                 \div Scale
                  /\ new.sample_count = row.sample_count + 1]_vars

\* the run of test_moving_average_logic: p_obs 0.5, alpha_p 0.5, t_base_1 100,
\* c_startup 0, s 2, gamma 1, t_actual 60 have given p_obs 0.65, sample_count 2
C21_witness ==
    \E w \in Workers :
        LET row == task_models[call[w].task_name]
        IN  /\ Finished(w, "feedback")
            /\ obs[w].um_res = "ok"
            /\ call[w].s = 2 /\ call[w].gamma = Scale /\ call[w].t_actual = 6000
            /\ row.t_base_1 = 10000 /\ row.c_startup = 0 /\ row.alpha_p = 50
            /\ row.p_obs = 65
            /\ row.sample_count = 2
            /\ execution_history[call[w].task_name][1].p_snapshot = 65


\* the run w reports took the theoretical time of its row for the parallel
\* fraction p, with s >= 2, gamma > 0, t_base > 0 and c_startup >= 0
RoundTripCase(w, p) ==
    /\ call[w].s >= 2
    /\ call[w].gamma > 0
    /\ params[w].t_base_1 > 0
    /\ params[w].c_startup >= 0
    /\ call[w].t_actual = calculate_theoretical_time(params[w].c_startup, call[w].gamma,
                              params[w].t_base_1, p, call[w].s, params[w].k_exponent)

\* calculate_current_p gives p back for that run, to the resolution of the
\* number format
RoundTripHolds(w, p, tolerance) ==
    LET inferred_p == calculate_current_p(call[w].s, call[w].t_actual, params[w].c_startup,
                                          params[w].t_base_1, call[w].gamma,
                                          params[w].k_exponent)
    IN  inferred_p # None /\ Abs(inferred_p - p) <= tolerance

C28_inferred_p_clamped ==
    [][\A w \in Workers :
          (pc[w] = "feedback_update_model" /\ pc'[w] # pc[w]) =>
              LET p_current == calculate_current_p(call[w].s, call[w].t_actual,
                                   params[w].c_startup, params[w].t_base_1, call[w].gamma,
                                   params[w].k_exponent)
              IN  p_current # None =>
                      /\ 1 <= p_current /\ p_current <= 99
                      /\ implied_p(call[w], params[w]) > 99 => p_current = 99
                      /\ implied_p(call[w], params[w]) < 1 => p_current = 1]_vars

\* the impossibly fast run of test_clamping (s 10, t_actual 1, c_startup 5,
\* t_base 200) has been committed on a row with p_obs 0.5: p_obs is the
\* average of 0.5 and 0.99
C28_witness ==
    \E w \in Workers :
        LET row == task_models[call[w].task_name]
        IN  /\ Finished(w, "feedback")
            /\ obs[w].um_res = "ok"
            /\ call[w].s = 10 /\ call[w].gamma = Scale /\ call[w].t_actual = 100
            /\ row.c_startup = 500 /\ row.t_base_1 = 20000
            /\ row.p_obs = (row.alpha_p * 50 + (Scale - row.alpha_p) * 99) \div Scale



\* the candidates of the search of predict on the row
candidates_s(row) == 1..CeilDiv(_find_search_space(row.p_obs) * 3, 2)

\* w returns from the residual path named path in this step
PredictReturnStep(w, path) ==
    /\ pc[w] = path
    /\ pc'[w] = "returned"
    /\ result'[w].kind = "return"

\* C29: when the train call of a predict was given an empty history, the
\* residual model is not trained afterwards and answers zero for every
\* candidate s, so the residual predict returns is zero, whether or not an
\* earlier train call had fitted the model
C29_empty_history_zero_residuals ==
    [][\A w \in Workers :
          /\ PredictReturnStep(w, "predict_search")
          /\ get_history(execution_history[call[w].task_name], 50) = <<>>
          => /\ ~is_trained'[w]
             /\ \A s \in candidates_s(params[w]) :
                    residual_predict(is_trained'[w], obs'[w].profile, s) = 0
             /\ result'[w].predicted_residual = 0]_vars

C29_witness ==
    \E w \in Workers :
        /\ Finished(w, "predict")
        /\ result[w].path = "search"
        /\ execution_history[call[w].task_name] = <<>>
        /\ obs[w].was_trained
        /\ ~is_trained[w]
        /\ result[w].predicted_residual = 0
        /\ result[w].predicted_amdahl = default_c_startup


\* C30: predict on a row whose sample_count is not 1 returns an s with
\* 1 <= s <= ceil(1.5 * S_max), S_max being 50 for p_obs >= 0.99 and
\* max(ceil(p_obs / (1 - p_obs)), 15) below
C30_s_within_search_space ==
    [][\A w \in Workers :
          PredictReturnStep(w, "predict_search") =>
              LET p == params[w].p_obs
                  S_max == IF p >= 99 THEN 50
                           ELSE IF CeilDiv(p, Scale - p) > 15 THEN CeilDiv(p, Scale - p)
                           ELSE 15
              IN  /\ params[w].sample_count # 1
                  /\ 1 <= result'[w].s
                  /\ 2 * result'[w].s <= 3 * S_max + 1]_vars

\* the search ends on the last candidate of a row with p_obs = 0.8
C30_witness ==
    \E w \in Workers :
        /\ Finished(w, "predict")
        /\ result[w].path = "search"
        /\ task_models[call[w].task_name].p_obs = 80
        /\ task_models[call[w].task_name].sample_count = 2
        /\ result[w].s = 23


\* the predicted total time (Amdahl + residual) of the candidate s in the
\* search step w is about to take, and its cost T_total * sqrt(s)
PredictedTotal(w, s) ==
    LET row == params[w]
        serial == Mul(Scale - row.p_obs, row.t_base_1)
        parallel == Mul(row.p_obs, row.t_base_1) \div s
        scaling_factor == Pow(result'[w].gamma, row.k_exponent)
        t_amdahl == row.c_startup + Mul(scaling_factor, serial + parallel)
        residual == IF is_trained'[w] THEN obs'[w].profile[1] + obs'[w].profile[2] * s ELSE 0
    IN  IF scaling_factor = Huge /\ serial + parallel > 0
        THEN Huge ELSE t_amdahl + residual

PredictedCost(w, s) == Mul(PredictedTotal(w, s), Sqrt(s))

\* the candidates whose predicted total time is within the SLO of the call
WithinSLO(w) ==
    {s \in candidates_s(params[w]) : PredictedTotal(w, s) <= call[w].max_time_slo}

\* C22: when max_time_slo is set and some candidate has a predicted total
\* time within it, predict on a task with two or more samples returns an s
\* whose predicted total time is within the SLO and whose cost
\* T_total * sqrt(s) is the least among the candidates within the SLO
C22_slo_feasible_argmin ==
    [][\A w \in Workers :
          /\ PredictReturnStep(w, "predict_search")
          /\ params[w].sample_count >= 2
          /\ call[w].max_time_slo # None
          /\ WithinSLO(w) # {}
          => /\ result'[w].s \in WithinSLO(w)
             /\ \A s \in WithinSLO(w) : PredictedCost(w, result'[w].s) <= PredictedCost(w, s)
             /\ result'[w].predicted_amdahl + result'[w].predicted_residual
                    = PredictedTotal(w, result'[w].s)]_vars

\* t_base_1 = 100 s, p_obs = 0.8, c_startup = 6 s, gamma = 1, no residual,
\* SLO 50 s: s = 3 has the least cost and 52.67 s, s = 4 is returned
C22_witness ==
    \E w \in Workers :
        /\ Finished(w, "predict")
        /\ result[w].path = "search"
        /\ call[w].max_time_slo = 5000
        /\ task_models[call[w].task_name].sample_count = 2
        /\ obs[w].profile = <<0, 0>>
        /\ result[w].s = 4
        /\ result[w].predicted_amdahl = 4600


\* the candidates that the time constraint of the call does not skip
PassSLO(w) ==
    IF call[w].max_time_slo \in {None, 0} THEN candidates_s(params[w]) ELSE WithinSLO(w)

Smallest(S) == CHOOSE s \in S : \A s2 \in S : s <= s2

\* some candidates pass the time constraint, and all of them have the same
\* predicted total time, which is at least least
EqualTotals(w, least) ==
    /\ PassSLO(w) # {}
    /\ LET T == PredictedTotal(w, Smallest(PassSLO(w)))
       IN  /\ least <= T /\ T <= Limit
           /\ \A s \in PassSLO(w) : PredictedTotal(w, s) = T

\* C23 (as claimed): whenever all candidates that pass the SLO filter have
\* the same predicted total time, predict returns the smallest of them
C23_equal_totals_smallest_s ==
    [][\A w \in Workers :
          /\ PredictReturnStep(w, "predict_search")
          /\ EqualTotals(w, -Limit)
          => result'[w].s = Smallest(PassSLO(w))]_vars

\* C23 (amended): whenever all candidates that pass the SLO filter have the
\* same predicted total time and that time is not negative, predict returns
\* the smallest of them
C23_equal_nonnegative_totals_smallest_s ==
    [][\A w \in Workers :
          /\ PredictReturnStep(w, "predict_search")
          /\ EqualTotals(w, 0)
          => result'[w].s = Smallest(PassSLO(w))]_vars

\* every candidate has the predicted total time 6 s (a baseline of 0 s, the
\* residual model predicting 0) and 1 is returned
C23_witness ==
    \E w \in Workers :
        /\ Finished(w, "predict")
        /\ result[w].path = "search"
        /\ call[w].input_quantity = 100
        /\ task_models[call[w].task_name].t_base_1 = 0
        /\ obs[w].profile = <<0, 0>>
        /\ result[w].predicted_amdahl = default_c_startup
        /\ result[w].s = 1


\* C24: every predicted_amdahl and predicted_residual that predict returns,
\* on the cold-start, the calibration and the search path, has passed the
\* clamp: it is a finite value in [-1e10, 1e10]
C24_returned_values_clamped ==
    \A w \in Workers :
        Finished(w, "predict") /\ result[w].kind = "return" =>
            /\ result[w].predicted_amdahl \in -Limit..Limit
            /\ result[w].predicted_residual \in -Limit..Limit


\* C25: a predict whose fit of the residual model fails does not fail: it
\* returns, with the residual model not trained and a residual of 0
C25_fit_failure_degrades ==
    \A w \in Workers :
        /\ Finished(w, "predict")
        /\ result[w].path \in {"calibration", "search"}
        /\ fit_fails(execution_history[call[w].task_name])
        => /\ result[w].kind = "return"
           /\ ~is_trained[w]
           /\ result[w].predicted_residual = 0


\* w is in a report_success call whose probe has been made
Probed(w) == call[w].probe # "none" /\ pc[w] # "report_success"

\* C26: report_success calls estimator.feedback exactly once, with the
\* probed duration when the probe succeeds and with fallback_duration when
\* it fails (no token, HTTP error, missing or malformed timing data), and
\* no failure of the probe aborts it
C26_probe_failure_falls_back ==
    \A w \in Workers :
        Probed(w) =>
            /\ ~(result[w].kind = "raise" /\ result[w].path = "report_success")
            /\ obs[w].fb_calls = 1
            /\ call[w].op = "feedback"
            /\ call[w].t_actual = IF call[w].probe = "ok" THEN call[w].probed
                                  ELSE call[w].fallback_duration


\* C31: for every task, sample_count is the number of its history rows; a
\* task without a row, like one predict has just created, has none
C31_sample_count_is_history_length ==
    \A t \in Tasks :
        Len(execution_history[t]) = IF task_models[t].exists THEN task_models[t].sample_count
                                    ELSE 0

C31_witness ==
    \E t \in Tasks :
        /\ task_models[t].sample_count = 2
        /\ Len(execution_history[t]) = 2
        /\ \E w \in Workers : Finished(w, "predict") /\ result[w].path = "cold"

\* C32: once a task has a sample, the p_snapshot of its newest history row
\* is the p_obs of its row
C32_snapshot_is_p_obs ==
    \A t \in Tasks :
        task_models[t].exists /\ task_models[t].sample_count >= 1 =>
            /\ execution_history[t] # <<>>
            /\ execution_history[t][Len(execution_history[t])].p_snapshot = task_models[t].p_obs

\* two feedback calls were in the store at the same time, one of them met
\* StaleDataError, and the task has a p_obs below 1
C32_witness ==
    \E t \in Tasks :
        /\ task_models[t].sample_count >= 2
        /\ task_models[t].p_obs < Scale
        /\ execution_history[t][Len(execution_history[t])].p_snapshot = task_models[t].p_obs
        /\ \E w \in Workers : obs[w].stale >= 1


\* the step commits the learning update of a feedback call of w
LearningCommitStep(w) == CommitStep(w) /\ pc[w] = "feedback_update_model"

\* the p_obs and k_exponent the feedback call c gives when it is applied to
\* the row as a whole, as in a run of the calls one after another
Applied(c, row) == <<learned(c, row).new_p, learned(c, row).new_k>>

\* the committed update of w was computed from the p_obs and k_exponent that
\* are in the row when it commits
C33_computed_from_current_p_and_k ==
    [][\A w \in Workers :
          LearningCommitStep(w) =>
              LET row == task_models[call[w].task_name]
              IN  /\ params[w].p_obs = row.p_obs
                  /\ params[w].k_exponent = row.k_exponent]_vars

StaleStep(w) == obs'[w].stale = obs[w].stale + 1

\* the update_model calls for the task of w that have committed since the
\* attempt of w read the model (sample_count counts the commits)
CommitsSinceRead(w) ==
    LET row == task_models[call[w].task_name]
    IN  (IF row.exists THEN row.sample_count ELSE 0)
        - (IF params[w].exists THEN params[w].sample_count ELSE 0)

C35_three_calls_all_commit ==
    ncalls <= 3 =>
        /\ \A w \in Workers :
               Finished(w, "feedback") =>
                   /\ result[w].path = "committed"
                   /\ obs[w].um_res = "ok"
                   /\ obs[w].stale <= 2
        /\ (\A w \in Workers : ~InCall(w)) =>
               \A t \in Tasks :
                   /\ task_models[t].sample_count = StartCount(task_models[t]) + ncalls
                   /\ Len(execution_history[t]) = StartCount(task_models[t]) + ncalls

\* three calls at once on a task without samples: one of them has met
\* StaleDataError twice and committed in its third attempt
C35_witness ==
    /\ ncalls = 3
    /\ \A w \in Workers : Finished(w, "feedback") /\ result[w].path = "committed"
    /\ \E w \in Workers : obs[w].stale = 2 /\ obs[w].first_sc = 0
    /\ \A t \in Tasks : task_models[t].sample_count = 3 /\ Len(execution_history[t]) = 3


\* C36: a feedback call for a task that has no row, no predict running,
\* creates neither a task row nor a history row, and returns without
\* raising
C36_feedback_on_missing_task ==
    /\ [](\A w \in Workers :
             Finished(w, "feedback") /\ obs[w].first_sc = -1 =>
                 /\ result[w].kind = "return"
                 /\ obs[w].um_res # "ok"
                 /\ task_models[call[w].task_name] = NoRow
                 /\ execution_history[call[w].task_name] = <<>>)
    /\ [][\A w \in Workers :
             call[w].op = "feedback" /\ obs[w].first_sc = -1 /\ pc'[w] # pc[w] =>
                 UNCHANGED <<task_models, execution_history>>]_vars

C36_witness ==
    \E w \in Workers :
        /\ Finished(w, "feedback")
        /\ obs[w].first_sc = -1
        /\ obs[w].notfound = 3
        /\ result[w].kind = "return"
        /\ task_models[call[w].task_name] = NoRow
        /\ execution_history[call[w].task_name] = <<>>


\* C37: no step of a predict call on a task that has a row changes the
\* store: task_models and execution_history stay as they are, whatever the
\* sample_count of the row
C37_predict_reads_only ==
    [][\A w \in Workers :
          /\ call[w].op = "predict"
          /\ InCall(w)
          /\ pc'[w] # pc[w]
          /\ task_models[call[w].task_name].exists
          => UNCHANGED <<task_models, execution_history>>]_vars

\* a predict has gone through the search on a task with two samples
C37_witness ==
    \E w \in Workers :
        /\ Finished(w, "predict")
        /\ obs[w].first_sc = 2
        /\ result[w].path = "search"
        /\ task_models[call[w].task_name].sample_count = 2
        /\ Len(execution_history[call[w].task_name]) = 2


\* w ends the search path of predict in this step, by a return or by an
\* exception
SearchEndStep(w) ==
    /\ pc[w] = "predict_search"
    /\ pc'[w] = "returned"

\* the predicted total time of the candidate s in that step: the Amdahl time
\* plus the residual the model predicts, the residual being 0 when the fit
\* of the model has failed
TotalOrAmdahl(w, s) ==
    IF fit_fails(get_history(execution_history[call[w].task_name], 50))
    THEN calculate_theoretical_time(params[w].c_startup, predict_gamma(w), params[w].t_base_1,
                                    params[w].p_obs, s, params[w].k_exponent)
    ELSE PredictedTotal(w, s)

\* max_time_slo is set and no candidate has a predicted total time within it
InfeasibleSLO(w) ==
    /\ call[w].max_time_slo \notin {None, 0}
    /\ \A s \in candidates_s(params[w]) : TotalOrAmdahl(w, s) > call[w].max_time_slo

\* C38: when max_time_slo is set and no candidate s has a predicted total
\* time within it, predict on a task whose sample_count is not 1 does not
\* fail: it returns s = 1 with predicted_amdahl = 0 and predicted_residual = 0
C38_infeasible_slo_returns_one ==
    [][\A w \in Workers :
          /\ SearchEndStep(w)
          /\ params[w].sample_count # 1
          /\ InfeasibleSLO(w)
          => /\ result'[w].kind = "return"
             /\ result'[w].s = 1
             /\ result'[w].predicted_amdahl = 0
             /\ result'[w].predicted_residual = 0]_vars

\* the same for the calls whose fit of the residual model succeeds
C38_infeasible_slo_when_fit_succeeds ==
    [][\A w \in Workers :
          /\ SearchEndStep(w)
          /\ params[w].sample_count # 1
          /\ InfeasibleSLO(w)
          /\ ~fit_fails(get_history(execution_history[call[w].task_name], 50))
          => /\ result'[w].kind = "return"
             /\ result'[w].s = 1
             /\ result'[w].predicted_amdahl = 0
             /\ result'[w].predicted_residual = 0]_vars

\* a search on a task with two samples and a baseline of 100 s, with an SLO
\* of 1 s, has returned (1, gamma, 0, 0)
C38_infeasible_returned ==
    \E w \in Workers :
        /\ Finished(w, "predict")
        /\ result[w].path = "search"
        /\ result[w].kind = "return"
        /\ call[w].max_time_slo = 100
        /\ task_models[call[w].task_name].sample_count = 2
        /\ task_models[call[w].task_name].t_base_1 = 10000
        /\ result[w].s = 1
        /\ result[w].predicted_amdahl = 0
        /\ result[w].predicted_residual = 0


\* C39: in every reachable state of a task row created by predict,
\* 0.01 <= p_obs <= 1.0 (its alpha_p being in (0, 1)): the row starts at
\* p_obs = 1.0, and a step that changes the p_obs of the row writes 1.0 or a
\* convex combination of the value the row held with an inferred p in
\* [0.01, 0.99]
C39_p_obs_range_of_created_rows ==
    /\ [](\A t \in Tasks :
             /\ task_models[t].exists
             /\ 0 < task_models[t].alpha_p /\ task_models[t].alpha_p < Scale
             => 1 <= task_models[t].p_obs /\ task_models[t].p_obs <= Scale)
    /\ [][\A t \in Tasks :
             LET old == task_models[t]
                 new == task_models'[t]
             IN  /\ ~old.exists /\ new.exists => new.p_obs = Scale
                 /\ old.exists /\ new.p_obs # old.p_obs
                    => \/ new.p_obs = Scale
                       \/ \E p_current \in 1..99 :
                             /\ new.p_obs = update_moving_average(old.p_obs, p_current,
                                                                  old.alpha_p)
                             /\ Min(old.p_obs, p_current) <= new.p_obs
                             /\ new.p_obs <= Max(old.p_obs, p_current)]_vars

\* a row that a cold start of predict has created holds, after two committed
\* feedbacks, a p_obs below 1.0 that is also the snapshot of its last run
C39_witness ==
    \E w \in Workers :
        /\ Finished(w, "predict")
        /\ result[w].path = "cold"
        /\ result[w].kind = "return"
        /\ LET t == call[w].task_name
           IN  /\ task_models[t].sample_count = 2
               /\ task_models[t].p_obs \in 1..99
               /\ execution_history[t][2].p_snapshot = task_models[t].p_obs

=============================================================================
